---- MODULE Spec2Model ----
(***************************************************************************)
(* A model of tiny-http-explorer (src/src/main.rs, src/src/cli/mod.rs):    *)
(* the startup check of the root directory, the axum router, the two       *)
(* request handlers, list_dir, and a filesystem that an external actor     *)
(* may change between any two filesystem calls of the server.              *)
(*                                                                         *)
(* Text (URLs, file names) is a sequence of tokens.  A token is one of the *)
(* delimiter characters "/", "?", "%", "." or an atomic run of ordinary    *)
(* characters ("docs", "html", "3F").  A file name is a non-empty sequence *)
(* of tokens without "/"; a path is a sequence of file names.              *)
(*                                                                         *)
(* The filesystem: a fixed universe of nodes, each a directory or a file   *)
(* whenever it exists; no symbolic links, no permissions.  A directory is  *)
(* enumerated as tokio's read_dir does it for a short directory: the names *)
(* are fetched when the stream is opened, and each entry's metadata is     *)
(* looked up when the loop reaches it.  The length reported for a          *)
(* directory, which depends on the filesystem, is taken to be 0.           *)
(***************************************************************************)
EXTENDS Integers, Sequences, FiniteSets, TLC

VARIABLES fs, server, state, req, envSteps

vars == <<fs, server, state, req, envSteps>>

(***************************************************************************)
(* Bounds of the model.                                                    *)
(***************************************************************************)
NumRequests == 2
MaxEnvSteps == 1

Requests == 1..NumRequests

(***************************************************************************)
(* File names and the universe of filesystem nodes.                        *)
(***************************************************************************)
Dot      == <<".">>
DotDot   == <<".", ".">>
nSrv     == <<"srv">>
nDocs    == <<"docs">>
nTower   == <<"tower">>
nIndex   == <<"index", ".", "html">>
nAJson   == <<"a", ".", "json">>
nQuery   == <<"a", "?", "b">>
nSecret  == <<"secret", ".", "zzz">>
nNope    == <<"nope">>

FsRoot   == << >>
SrvDir   == <<nSrv>>

\* The nodes that may exist, besides "/" itself, each with the kind it has
\* whenever it exists.
DirNodes  == { SrvDir, <<nSrv, nDocs>>, <<nSrv, nTower>> }
FileNodes == { <<nSrv, nDocs, nAJson>>, <<nSrv, nDocs, nQuery>>, <<nSecret>> }
Universe  == DirNodes \cup FileNodes

\* File contents: byte sequences.  Files start with OldData or LongData and
\* are created with NewData.
OldData  == <<7>>
LongData == <<7, 9>>
NewData  == <<9>>

NoNode == [kind |-> "none", data |-> << >>]
DirRec == [kind |-> "dir", data |-> << >>]
FileRec(d) == [kind |-> "file", data |-> d]

Parent(p) == IF p = << >> THEN << >> ELSE SubSeq(p, 1, Len(p) - 1)
LastName(p) == p[Len(p)]

\* The order in which the filesystem returns the entries of a directory.
NodeOrder == << SrvDir, <<nSecret>>, <<nSrv, nDocs>>, <<nSrv, nTower>>,
                <<nSrv, nDocs, nAJson>>, <<nSrv, nDocs, nQuery>> >>

\* lstat of an already resolved node.
Node(f, n) == IF n = FsRoot THEN DirRec
              ELSE IF n \in Universe THEN f[n] ELSE NoNode

\* Path resolution as the operating system does it: left to right, "." stays,
\* ".." goes to the parent, and every intermediate component must be a
\* directory.  NoPath is the result of a failed resolution.
NoPath == << << >> >>

RECURSIVE Walk(_, _, _)
Walk(f, cur, rest) ==
    IF rest = << >> THEN cur
    ELSE IF Node(f, cur).kind # "dir" THEN NoPath
    ELSE LET c == Head(rest) IN
         IF c = DotDot THEN Walk(f, Parent(cur), Tail(rest))
         ELSE IF c = Dot THEN Walk(f, cur, Tail(rest))
         ELSE Walk(f, Append(cur, c), Tail(rest))

\* stat(2) of a path given as its components from "/".
Stat(f, p) == LET n == Walk(f, FsRoot, p) IN
              IF n = NoPath THEN NoNode ELSE Node(f, n)

\* Path::exists and Path::is_dir.
Exists(f, p) == Stat(f, p).kind # "none"
IsDir(f, p)  == Stat(f, p).kind = "dir"

\* The names in directory node n, in filesystem order.
RECURSIVE ChildrenFrom(_, _, _)
ChildrenFrom(f, n, i) ==
    IF i > Len(NodeOrder) THEN << >>
    ELSE LET c == NodeOrder[i] IN
         IF Parent(c) = n /\ f[c].kind # "none"
         THEN <<LastName(c)>> \o ChildrenFrom(f, n, i + 1)
         ELSE ChildrenFrom(f, n, i + 1)

Children(f, n) == ChildrenFrom(f, n, 1)

(***************************************************************************)
(* Text: joining, splitting, percent-decoding, extensions.                 *)
(***************************************************************************)
\* The components of a path joined by "/" (Path::to_string_lossy).
RECURSIVE JoinSlash(_)
JoinSlash(p) ==
    IF p = << >> THEN << >>
    ELSE IF Len(p) = 1 THEN p[1]
    ELSE p[1] \o <<"/">> \o JoinSlash(Tail(p))

\* The components of a string: the runs between "/" tokens, empty runs dropped.
RECURSIVE SplitFrom(_, _)
SplitFrom(s, cur) ==
    IF s = << >> THEN (IF cur = << >> THEN << >> ELSE <<cur>>)
    ELSE IF Head(s) = "/"
         THEN (IF cur = << >> THEN << >> ELSE <<cur>>) \o SplitFrom(Tail(s), << >>)
         ELSE SplitFrom(Tail(s), Append(cur, Head(s)))

Components(s) == SplitFrom(s, << >>)

\* Percent-decoding of a URL path, as axum's Path extractor does it: "%"
\* followed by two hexadecimal digits is the character they encode, and any
\* other "%" stays.
HexPairs == { "3F", "25", "2F" }
HexChar(h) == IF h = "3F" THEN "?" ELSE IF h = "25" THEN "%" ELSE "/"

RECURSIVE PercentDecode(_)
PercentDecode(s) ==
    IF s = << >> THEN << >>
    ELSE IF Head(s) = "%" /\ Len(s) >= 2 /\ s[2] \in HexPairs
         THEN <<HexChar(s[2])>> \o PercentDecode(Tail(Tail(s)))
         ELSE <<Head(s)>> \o PercentDecode(Tail(s))

\* The path of a request target: what precedes the query string.
RECURSIVE PathOf(_)
PathOf(t) ==
    IF t = << >> \/ Head(t) = "?" THEN << >>
    ELSE <<Head(t)>> \o PathOf(Tail(t))

\* Path::extension: what follows the last "." of the file name, unless the
\* name has no "." or only a leading one.
LastDot(name) ==
    LET D == { i \in 1..Len(name) : name[i] = "." } IN
    IF D = {} THEN 0 ELSE CHOOSE i \in D : \A j \in D : j <= i

Extension(name) ==
    IF name = DotDot \/ LastDot(name) <= 1 THEN << >>
    ELSE SubSeq(name, LastDot(name) + 1, Len(name))

\* Mutant of MimeGuess: first_or_octet_stream in place of first_or_text_plain.
MimeGuessOctetStream(p) ==
    LET ext == IF p = << >> THEN << >> ELSE Extension(LastName(p)) IN
    IF ext = <<"html">> THEN "text/html"
    ELSE IF ext = <<"json">> THEN "application/json"
    ELSE "application/octet-stream"

\* mime_guess::from_path(p).first_or_text_plain()
MimeGuess(p) ==
    LET ext == IF p = << >> THEN << >> ELSE Extension(LastName(p)) IN
    IF ext = <<"html">> THEN "text/html"
    ELSE IF ext = <<"json">> THEN "application/json"
    ELSE "text/plain"

\* PathBuf::join: an absolute argument replaces the base.
IsAbsolute(s) == s # << >> /\ Head(s) = "/"
JoinPath(base, s) == IF IsAbsolute(s) THEN Components(s) ELSE base \o Components(s)

\* Path::strip_prefix, by components: Err unless HasPrefix, else StripPrefix.
HasPrefix(p, base) == Len(base) <= Len(p) /\ SubSeq(p, 1, Len(base)) = base
StripPrefix(p, base) == SubSeq(p, Len(base) + 1, Len(p))

\* The href list_dir renders for displayed_path.
Href(displayed) == <<"/">> \o JoinSlash(displayed)

(***************************************************************************)
(* The router built by process_http_server.                                *)
(***************************************************************************)
TowerPrefix == <<"/", "tower">>

UnderTower(path) ==
    /\ HasPrefix(path, TowerPrefix)
    /\ (Len(path) = Len(TowerPrefix) \/ path[Len(TowerPrefix) + 1] = "/")

\* Which service answers a request target.
Route(t) ==
    LET path == PathOf(t) IN
    IF UnderTower(path) THEN "serve_dir"
    ELSE IF path = <<"/">> THEN "root_handler"
    ELSE IF Len(path) > 1 /\ Head(path) = "/" THEN "handler"
    ELSE "no_route"

\* The value of the *path capture of route "/*path".
Captured(t) == PercentDecode(Tail(PathOf(t)))

\* What is left of the path for the service nested under /tower.
TowerInner(t) == PercentDecode(StripPrefix(PathOf(t), TowerPrefix))

(***************************************************************************)
(* Requests and responses.                                                 *)
(***************************************************************************)
NoResponse == [status |-> 0, ctype |-> "", kind |-> "none", items |-> << >>,
               data |-> << >>, branch |-> "none"]

\* StatusCode::NOT_FOUND.into_response(): no body.
NotFoundResponse ==
    [status |-> 404, ctype |-> "", kind |-> "empty", items |-> << >>,
     data |-> << >>, branch |-> "not_found"]

\* Html(body) with status 200; branch tells root_handler's from handler's.
ListingResponse(items, br) ==
    [status |-> 200, ctype |-> "text/html", kind |-> "html", items |-> items,
     data |-> << >>, branch |-> br]

\* root_handler: (INTERNAL_SERVER_ERROR, Html(e.to_string())).
RootErrorResponse ==
    [status |-> 500, ctype |-> "text/html", kind |-> "text", items |-> << >>,
     data |-> << >>, branch |-> "root_err"]

\* handler: StatusCode::INTERNAL_SERVER_ERROR.into_response(): no body.
HandlerErrorResponse(br) ==
    [status |-> 500, ctype |-> "", kind |-> "empty", items |-> << >>,
     data |-> << >>, branch |-> br]

\* handler: the bytes read, with the guessed content type.
FileResponse(content, mime) ==
    [status |-> 200, ctype |-> mime, kind |-> "bytes", items |-> << >>,
     data |-> content, branch |-> "file_ok"]

\* Mutant of ListDirError: handler answers a failed listing like a missing path.
ListDirErrorAsNotFound(caller) ==
    IF caller = "root_handler" THEN RootErrorResponse
    ELSE [NotFoundResponse EXCEPT !.branch = "dir_err"]

\* What the caller of list_dir makes of its Err.
ListDirError(caller) ==
    IF caller = "root_handler" THEN RootErrorResponse
    ELSE HandlerErrorResponse("dir_err")

IdleRequest ==
    [pc |-> "idle", target |-> << >>, p |-> << >>, dir_path |-> << >>,
     base_path |-> << >>, caller |-> "none", opened |-> << >>,
     entries |-> << >>, body |-> << >>, resp |-> NoResponse]

\* The request targets clients send: the links list_dir can render for the
\* nodes under the served directory, and some others.
LinkTargets == { Href(StripPrefix(n, SrvDir)) : n \in { m \in Universe :
                     HasPrefix(m, SrvDir) /\ m # SrvDir } }
OtherTargets == { <<"/">>,
                  <<"/", "docs", "/", "a", "%", "3F", "b">>,
                  <<"/", ".", ".", "/", "secret", ".", "zzz">>,
                  <<"/", "/", "secret", ".", "zzz">>,
                  <<"/", "/">> }
Targets == LinkTargets \cup OtherTargets

(***************************************************************************)
(* The initial state: a populated filesystem (the file a?b is yet to be     *)
(* created), the server not yet started.                                   *)
(***************************************************************************)
InitFs == [n \in Universe |->
             IF n = <<nSrv, nDocs, nQuery>> THEN NoNode
             ELSE IF n \in DirNodes THEN DirRec
             ELSE IF n = <<nSecret>> THEN FileRec(LongData)
             ELSE FileRec(OldData)]

\* The values of --dir tried at startup.
StartArgs == { SrvDir, <<nSecret>>, <<nNope>> }

Init ==
    /\ fs = InitFs
    /\ server = [pc |-> "parse", arg |-> << >>]
    /\ state = [path |-> << >>]
    /\ req = [r \in Requests |-> IdleRequest]
    /\ envSteps = 0

(***************************************************************************)
(* The external actor: rm -r of a node, or creation of a missing one.      *)
(***************************************************************************)
EnvRemove(n) ==
    /\ envSteps < MaxEnvSteps
    /\ fs[n].kind # "none"
    /\ fs' = [m \in Universe |-> IF HasPrefix(m, n) THEN NoNode ELSE fs[m]]
    /\ envSteps' = envSteps + 1
    /\ UNCHANGED <<server, state, req>>

EnvCreate(n) ==
    /\ envSteps < MaxEnvSteps
    /\ fs[n].kind = "none"
    /\ Node(fs, Parent(n)).kind = "dir"
    /\ fs' = [fs EXCEPT ![n] = IF n \in DirNodes THEN DirRec
                                 ELSE FileRec(NewData)]
    /\ envSteps' = envSteps + 1
    /\ UNCHANGED <<server, state, req>>

Env == \E n \in Universe : EnvRemove(n) \/ EnvCreate(n)

(***************************************************************************)
(* Startup: clap runs verify_path on --dir; main then serves.              *)
(***************************************************************************)
\* p.exists() of verify_path
verify_path_exists(a) ==
    /\ server.pc = "parse"
    /\ server' = [pc |-> IF Exists(fs, a) THEN "is_dir" ELSE "rejected", arg |-> a]
    /\ UNCHANGED <<fs, state, req, envSteps>>

\* Mutant of verify_path_is_dir: the is_dir half of the condition left out.
verify_path_without_is_dir ==
    /\ server.pc = "is_dir"
    /\ server' = [server EXCEPT !.pc = "accepted"]
    /\ UNCHANGED <<fs, state, req, envSteps>>

\* p.is_dir() of verify_path
verify_path_is_dir ==
    /\ server.pc = "is_dir"
    /\ server' = [server EXCEPT !.pc = IF IsDir(fs, server.arg) THEN "accepted"
                                       ELSE "rejected"]
    /\ UNCHANGED <<fs, state, req, envSteps>>

verify_path == (\E a \in StartArgs : verify_path_exists(a)) \/ verify_path_is_dir

\* HttpServerState { path } and the router being served.
process_http_server ==
    /\ server.pc = "accepted"
    /\ server' = [server EXCEPT !.pc = "serving"]
    /\ state' = [path |-> server.arg]
    /\ UNCHANGED <<fs, req, envSteps>>

(***************************************************************************)
(* Request handling.  Every action is one filesystem call of one request   *)
(* with the code around it; the external actor may act between any two.    *)
(***************************************************************************)
Respond(r, response) ==
    /\ req' = [req EXCEPT ![r].pc = "done", ![r].resp = response]
    /\ UNCHANGED <<fs, server, state, envSteps>>

Goto(r, fields) ==
    /\ req' = [req EXCEPT ![r] = fields]
    /\ UNCHANGED <<fs, server, state, envSteps>>

\* The router receives a request and picks the service for it.  Requests are
\* numbered in the order of their arrival.
Dispatch(r, t) ==
    /\ server.pc = "serving"
    /\ req[r].pc = "idle"
    /\ \A q \in Requests : q < r => req[q].pc # "idle"
    /\ Route(t) # "no_route"
    /\ Goto(r, [req[r] EXCEPT !.pc = Route(t), !.target = t])

\* root_handler: list_dir(&state.path, &state.path)
root_handler(r) ==
    /\ req[r].pc = "root_handler"
    /\ Goto(r, [req[r] EXCEPT !.pc = "list_dir", !.caller = "root_handler",
                              !.dir_path = state.path, !.base_path = state.path])

\* handler: the join and p.exists()
HandlerExists(r) ==
    LET p == JoinPath(state.path, Captured(req[r].target)) IN
    /\ req[r].pc = "handler"
    /\ IF ~Exists(fs, p)
       THEN Respond(r, NotFoundResponse)
       ELSE Goto(r, [req[r] EXCEPT !.pc = "is_dir", !.p = p])

\* Mutant of HandlerIsDir: the handler keeps the directory it browses in the
\* shared state.
HandlerIsDirSharedState(r) ==
    /\ req[r].pc = "is_dir"
    /\ req' = [req EXCEPT ![r] =
                 IF IsDir(fs, req[r].p)
                 THEN [req[r] EXCEPT !.pc = "list_dir", !.caller = "handler",
                                     !.dir_path = req[r].p,
                                     !.base_path = state.path]
                 ELSE [req[r] EXCEPT !.pc = "read"]]
    /\ state' = IF IsDir(fs, req[r].p) THEN [path |-> req[r].p] ELSE state
    /\ UNCHANGED <<fs, server, envSteps>>

\* handler: p.is_dir()
HandlerIsDir(r) ==
    /\ req[r].pc = "is_dir"
    /\ IF IsDir(fs, req[r].p)
       THEN Goto(r, [req[r] EXCEPT !.pc = "list_dir", !.caller = "handler",
                                   !.dir_path = req[r].p,
                                   !.base_path = state.path])
       ELSE Goto(r, [req[r] EXCEPT !.pc = "read"])

\* Mutant of HandlerRead: a failed read answered like a missing path.
HandlerReadAsNotFound(r) ==
    LET n == Stat(fs, req[r].p) IN
    /\ req[r].pc = "read"
    /\ IF n.kind = "file"
       THEN Respond(r, FileResponse(n.data, MimeGuess(req[r].p)))
       ELSE Respond(r, NotFoundResponse)

\* handler: tokio::fs::read(&p) and the response made of it
HandlerRead(r) ==
    LET n == Stat(fs, req[r].p) IN
    /\ req[r].pc = "read"
    /\ IF n.kind = "file"
       THEN Respond(r, FileResponse(n.data, MimeGuess(req[r].p)))
       ELSE Respond(r, HandlerErrorResponse("file_err"))

handler(r) == HandlerExists(r) \/ HandlerIsDir(r) \/ HandlerRead(r)

\* list_dir: tokio::fs::read_dir(dir_path)
ListDirOpen(r) ==
    LET d == Walk(fs, FsRoot, req[r].dir_path) IN
    /\ req[r].pc = "list_dir"
    /\ IF d = NoPath \/ Node(fs, d).kind # "dir"
       THEN Respond(r, ListDirError(req[r].caller))
       ELSE Goto(r, [req[r] EXCEPT !.pc = "next_entry",
                                   !.opened = Children(fs, d),
                                   !.entries = Children(fs, d),
                                   !.body = << >>])

\* One list item of the listing.
ListItem(isDir, displayed, name, len) ==
    [icon |-> IF isDir THEN "dir" ELSE "file", href |-> Href(displayed),
     text |-> name, len |-> len]

\* Mutant of ListDirNext: an entry whose metadata fails is skipped.
ListDirNextSkipping(r) ==
    /\ req[r].pc = "next_entry"
    /\ IF req[r].entries = << >>
       THEN Respond(r, ListingResponse(req[r].body,
                       IF req[r].caller = "root_handler" THEN "root_ok"
                       ELSE "dir_ok"))
       ELSE LET file_name == Head(req[r].entries)
                file_path == Append(req[r].dir_path, file_name)
                metadata  == Stat(fs, file_path)
            IN  IF metadata.kind = "none"
                   \/ ~HasPrefix(file_path, req[r].base_path)
                THEN Goto(r, [req[r] EXCEPT !.entries = Tail(req[r].entries)])
                ELSE Goto(r, [req[r] EXCEPT
                       !.entries = Tail(req[r].entries),
                       !.body = Append(req[r].body,
                                  ListItem(metadata.kind = "dir",
                                           StripPrefix(file_path, req[r].base_path),
                                           file_name, Len(metadata.data)))])

\* list_dir: one turn of the loop over entries, or its end
ListDirNext(r) ==
    /\ req[r].pc = "next_entry"
    /\ IF req[r].entries = << >>
       THEN Respond(r, ListingResponse(req[r].body,
                       IF req[r].caller = "root_handler" THEN "root_ok"
                       ELSE "dir_ok"))
       ELSE LET file_name == Head(req[r].entries)
                file_path == Append(req[r].dir_path, file_name)
                metadata  == Stat(fs, file_path)
            IN  IF metadata.kind = "none"
                   \/ ~HasPrefix(file_path, req[r].base_path)
                THEN Respond(r, ListDirError(req[r].caller))
                ELSE Goto(r, [req[r] EXCEPT
                       !.entries = Tail(req[r].entries),
                       !.body = Append(req[r].body,
                                  ListItem(metadata.kind = "dir",
                                           StripPrefix(file_path, req[r].base_path),
                                           file_name, Len(metadata.data)))])

list_dir(r) == ListDirOpen(r) \/ ListDirNext(r)

\* tower_http's ServeDir over the same directory, nested under /tower, in one
\* step: it refuses ".." components, sends a file's bytes, and for a
\* directory sends the index.html in it if there is one.  It never renders a
\* listing.
ServeDir(r) ==
    LET comps == Components(TowerInner(req[r].target))
        q     == state.path \o comps
        n     == Stat(fs, q)
        index == Stat(fs, Append(q, nIndex))
        found(node, path) ==
            [status |-> 200, ctype |-> MimeGuess(path), kind |-> "bytes",
             items |-> << >>, data |-> node.data, branch |-> "serve_dir"]
        missing == [NotFoundResponse EXCEPT !.branch = "serve_dir"]
    IN
    /\ req[r].pc = "serve_dir"
    /\ IF \E i \in 1..Len(comps) : comps[i] = DotDot THEN Respond(r, missing)
       ELSE IF n.kind = "file" THEN Respond(r, found(n, q))
       ELSE IF n.kind = "dir" /\ index.kind = "file"
            THEN Respond(r, found(index, Append(q, nIndex)))
       ELSE Respond(r, missing)

Next ==
    \/ Env
    \/ verify_path
    \/ process_http_server
    \/ \E r \in Requests : \E t \in Targets : Dispatch(r, t)
    \/ \E r \in Requests : root_handler(r)
    \/ \E r \in Requests : handler(r)
    \/ \E r \in Requests : list_dir(r)
    \/ \E r \in Requests : ServeDir(r)

Spec == Init /\ [][Next]_vars

(***************************************************************************)
(* Vocabulary of the properties.                                           *)
(***************************************************************************)
Done(r) == req[r].pc = "done"

\* r takes the step that produces its response.
Responds(r) == req[r].pc # "done" /\ req'[r].pc = "done"

\* The response was produced by root_handler or handler.
ByHandlers(response) == response.branch \notin {"none", "serve_dir"}

\* The normal form of a path: "." dropped, ".." taking back one component.
RECURSIVE NormalizeFrom(_, _)
NormalizeFrom(acc, rest) ==
    IF rest = << >> THEN acc
    ELSE IF Head(rest) = DotDot THEN NormalizeFrom(Parent(acc), Tail(rest))
    ELSE IF Head(rest) = Dot THEN NormalizeFrom(acc, Tail(rest))
    ELSE NormalizeFrom(Append(acc, Head(rest)), Tail(rest))

Normalize(p) == NormalizeFrom(<< >>, p)

\* The location a request target names under the served directory.
Location(t) ==
    IF PathOf(t) = <<"/">> THEN state.path
    ELSE Normalize(JoinPath(state.path, Captured(t)))

\* The target names a location that is not the root or a descendant of it.
Escapes(t) == ~HasPrefix(Location(t), state.path)

\* The filesystem call r is about to make fails.
ReadFails(r) == req[r].pc = "read" /\ Stat(fs, req[r].p).kind # "file"
OpenFails(r) == req[r].pc = "list_dir" /\ ~IsDir(fs, req[r].dir_path)
EntryFails(r) ==
    /\ req[r].pc = "next_entry"
    /\ req[r].entries # << >>
    /\ LET file_path == Append(req[r].dir_path, Head(req[r].entries)) IN
       ~Exists(fs, file_path) \/ ~HasPrefix(file_path, req[r].base_path)

(***************************************************************************)
(* C1.  A GET whose joined path lies outside the root (".." segments, or   *)
(* an absolute captured path) is answered 404, never 200.                  *)
(* Stated as the claim has it; handler has no containment check.           *)
(***************************************************************************)
C1_EscapingPathIs404 ==
    \A r \in Requests :
        (Done(r) /\ Route(req[r].target) = "handler" /\ Escapes(req[r].target))
            => req[r].resp.status = 404

(***************************************************************************)
(* C2.  Every response of root_handler or handler is 200, 404 or 500: 404  *)
(* iff the joined target did not exist when the handler first looked at    *)
(* it, 500 iff it existed and list_dir or the read fails, 200 otherwise.   *)
(* Stated as the claim has it; root_handler never answers 404.             *)
(***************************************************************************)
\* Whether the target exists when r looks at it: handler's p.exists(), and
\* for root_handler, which has no such check, the read_dir of the root.
\* Past that point the request has seen it exist.
TargetExists(r) ==
    IF req[r].pc = "handler"
    THEN Exists(fs, JoinPath(state.path, Captured(req[r].target)))
    ELSE IF req[r].pc = "list_dir" /\ req[r].caller = "root_handler"
    THEN Exists(fs, state.path)
    ELSE TRUE

C2_StatusStep(r) ==
    LET status == req'[r].resp.status
        fails  == ReadFails(r) \/ OpenFails(r) \/ EntryFails(r)
    IN  /\ status \in {200, 404, 500}
        /\ (status = 404) <=> ~TargetExists(r)
        /\ (status = 500) <=> (TargetExists(r) /\ fails)

C2_AmendedStep(r) ==
    LET status == req'[r].resp.status
        fails  == ReadFails(r) \/ OpenFails(r) \/ EntryFails(r)
    IN  /\ status \in {200, 404, 500}
        /\ IF Route(req[r].target) = "handler"
           THEN /\ (status = 404) <=> ~TargetExists(r)
                /\ (status = 500) <=> (TargetExists(r) /\ fails)
           ELSE /\ status # 404
                /\ (status = 500) <=> fails

LinkReaches(href, child) ==
    /\ Route(href) = "handler"
    /\ JoinPath(state.path, Captured(href)) = child

C3_LinkRoundTrip ==
    \A r \in Requests :
        (Done(r) /\ req[r].resp.kind = "html" /\ ~Escapes(req[r].target)
                 /\ req[r].dir_path = Normalize(req[r].dir_path))
            => \A i \in 1..Len(req[r].resp.items) :
                  LinkReaches(req[r].resp.items[i].href,
                              Append(req[r].dir_path, req[r].resp.items[i].text))

(***************************************************************************)
(* C4.  A request path that stays inside the root and resolves to a        *)
(* directory is answered 200 with exactly one list item per immediate      *)
(* child, each href being "/" and the child's path relative to the root.   *)
(* Stated as the claim has it, for a filesystem nobody has touched;        *)
(* requests under /tower never reach list_dir (see C3).                    *)
(***************************************************************************)
IsListingOf(response, d) ==
    LET names == Children(fs, d) IN
    /\ response.status = 200
    /\ response.kind = "html"
    /\ Len(response.items) = Len(names)
    /\ \A i \in 1..Len(names) :
          /\ response.items[i].text = names[i]
          /\ Normalize(Components(response.items[i].href))
                = StripPrefix(Append(d, names[i]), state.path)
          /\ Head(response.items[i].href) = "/"

C4_DirectoryListing ==
    \A r \in Requests :
        (Done(r) /\ envSteps = 0 /\ ~Escapes(req[r].target)
                 /\ IsDir(fs, Location(req[r].target)))
            => IsListingOf(req[r].resp, Location(req[r].target))

(***************************************************************************)
(* C8.  Every 500 response of root_handler or handler carries a text body  *)
(* describing the failure.                                                 *)
(* Stated as the claim has it; handler's 500 has no body.                  *)
(***************************************************************************)
C8_ErrorBodyDescribesFailure ==
    \A r \in Requests :
        (Done(r) /\ ByHandlers(req[r].resp) /\ req[r].resp.status = 500)
            => req[r].resp.kind = "text"

(***************************************************************************)
(* C5.  When handler's read of a file succeeds the response is 200, its    *)
(* body is the file's bytes, and its Content-Type is the one mapped from   *)
(* the extension, text/plain when the extension is unknown or absent.      *)
(***************************************************************************)
\* The content types of the files of the universe, by name.
TypeOfName(name) ==
    IF name = nIndex THEN "text/html"
    ELSE IF name = nAJson THEN "application/json"
    ELSE "text/plain"

C5_FileResponse ==
    [][\A r \in Requests :
         (req[r].pc = "read" /\ req'[r] # req[r]
            /\ Stat(fs, req[r].p).kind = "file")
         => /\ req'[r].pc = "done"
            /\ req'[r].resp.status = 200
            /\ req'[r].resp.kind = "bytes"
            /\ req'[r].resp.data = fs[Normalize(req[r].p)].data
            /\ req'[r].resp.ctype = TypeOfName(LastName(Normalize(req[r].p)))]_vars

\* A file with a known extension and one without extension have been served.
C5_Witness ==
    /\ \E r \in Requests : /\ Done(r) /\ req[r].resp.branch = "file_ok"
                           /\ req[r].resp.ctype = "application/json"
                           /\ req[r].resp.data = OldData
    /\ \E r \in Requests : /\ Done(r) /\ req[r].resp.branch = "file_ok"
                           /\ req[r].resp.ctype = "text/plain"
                           /\ LastName(req[r].p) = nQuery

(***************************************************************************)
(* C6.  A file that passed handler's exists and is_dir checks and is gone  *)
(* when the read happens is answered 500, not 404 and not 200, and the     *)
(* read is handler's last step: no re-check, no retry.                     *)
(***************************************************************************)
C6_ReadFailureIs500 ==
    [][\A r \in Requests :
         (req[r].pc = "read" /\ req'[r] # req[r])
         => /\ req'[r].pc = "done"
            /\ (~Exists(fs, req[r].p) => req'[r].resp.status = 500)]_vars

\* A request answered 500 for a file that existed when checked and is gone.
C6_Witness ==
    \E r \in Requests :
        /\ Done(r) /\ req[r].resp.branch = "file_err"
        /\ req[r].resp.status = 500
        /\ Normalize(req[r].p) \in FileNodes
        /\ ~Exists(fs, req[r].p)

(***************************************************************************)
(* C7.  list_dir is all-or-nothing: when read_dir, or the metadata of one  *)
(* entry, fails, the request ends at once with a 500 that carries none of  *)
(* the items rendered so far; a 200 listing has an item for every entry    *)
(* the enumeration yields.                                                 *)
(***************************************************************************)
RECURSIVE ItemNames(_)
ItemNames(items) ==
    IF items = << >> THEN << >> ELSE <<Head(items).text>> \o ItemNames(Tail(items))

C7_AllOrNothing ==
    [][\A r \in Requests :
         /\ ((OpenFails(r) \/ EntryFails(r)) /\ req'[r] # req[r])
            => /\ req'[r].pc = "done"
               /\ req'[r].resp.status = 500
               /\ req'[r].resp.kind # "html"
               /\ req'[r].resp.items = << >>
         /\ (Responds(r) /\ req'[r].resp.kind = "html")
            => /\ req'[r].resp.status = 200
               /\ ItemNames(req'[r].resp.items) = req[r].opened]_vars

\* A listing that had rendered items when the metadata of an entry failed,
\* answered 500 without them.
C7_Witness ==
    \E r \in Requests : /\ Done(r) /\ req[r].resp.status = 500
                         /\ req[r].resp.branch \in {"root_err", "dir_err"}
                         /\ req[r].body # << >>
                         /\ req[r].entries # << >>
                         /\ req[r].resp.items = << >>

(***************************************************************************)
(* C9.  verify_path accepts its argument only if it is a directory when    *)
(* checked and rejects it only if it is not; the server is built from an   *)
(* accepted argument alone, and only a serving server takes requests.      *)
(***************************************************************************)
C9_StartupValidation ==
    [][/\ (server.pc # "accepted" /\ server'.pc = "accepted")
              => (Exists(fs, server'.arg) /\ IsDir(fs, server'.arg))
       /\ (server.pc # "rejected" /\ server'.pc = "rejected")
              => ~(Exists(fs, server'.arg) /\ IsDir(fs, server'.arg))
       /\ (server.pc # "serving" /\ server'.pc = "serving")
              => (server.pc = "accepted" /\ state'.path = server.arg)
       /\ \A r \in Requests :
              req'[r].pc # "idle" => (server.pc = "serving" /\ server' = server)]_vars

\* Both verdicts of the tests of verify_path: a directory accepted and
\* served, and (in another run) a request answered under it.
C9_Witness ==
    /\ server.pc = "serving"
    /\ state.path = SrvDir
    /\ \E r \in Requests : Done(r)

(***************************************************************************)
(* C10. A step of a request changes neither the filesystem, nor the shared *)
(* state, nor any other request: what a request does next depends on its   *)
(* own record, the filesystem and the immutable root only.                 *)
(***************************************************************************)
C10_HandlersShareNothing ==
    [][\A r \in Requests :
         req'[r] # req[r]
         => /\ fs' = fs
            /\ state' = state
            /\ server' = server
            /\ \A q \in Requests \ {r} : req'[q] = req[q]]_vars

\* Two requests in flight at once, one listing and one reading.
C10_Witness ==
    \E r, q \in Requests :
        /\ req[r].pc = "next_entry" /\ req[r].body # << >>
        /\ req[q].pc = "read"

====
